---- MODULE Spec2Model ----
(***************************************************************************)
(* Authentication and session management of nrv.dev-webapp: invitation-    *)
(* gated signup, signin, logout, check-auth and invite generation, as the  *)
(* HTTP handlers and the CLI command implement them.                       *)
(*                                                                         *)
(* Every client has at most one request in flight; net/http serves each    *)
(* request in its own goroutine, so handlers of different clients          *)
(* interleave at every access to shared state (the SQLite tables, the      *)
(* sessions map, the clock).  A handler step is one such access together   *)
(* with the local computation that follows it.                             *)
(***************************************************************************)
EXTENDS Integers, FiniteSets, Sequences, TLC

\* ---------------------------------------------------------------- bounds
MaxTicks == 2          \* clock ticks explored
TickHours == 24        \* hours the clock advances per tick
MaxRestarts == 2       \* times the server is started again

\* ------------------------------------------------------- program constants
sessionDuration == 24  \* hours
bcryptCost == 14
TokenBytes == 32
InviteBytes == 16
StatusOK == 200
StatusCreated == 201
StatusBadRequest == 400
StatusUnauthorized == 401
StatusInternalServerError == 500

\* ------------------------------------------------------------ input sets
\* the clients; each has at most one request in flight
Clients == {"c1", "c2"}
Usernames == {"alice", "bob"}
Passwords == {"pw1", "pw2"}
\* outcomes of crypto/rand.Read, as the byte every position is filled with
RandFills == {0, 255}
NoCookie == "<no cookie>"
\* a cookie value the server never issued
Forged == "not-a-session-token"

\* A byte slice: its length and the byte at every position.
MakeBytes(n) == [len |-> n, fill |-> 0]
RandRead(b, f) == [len |-> b.len, fill |-> f]

\* base64.StdEncoding.EncodeToString of a 32-byte slice
StdEncodeToString(b) ==
    CASE b.fill = 0   -> "AAAAAAAAAAAAAAAAAAAAAAAAAAAAAAAAAAAAAAAAAAA="
      [] b.fill = 255 -> "//////////////////////////////////////////8="
      [] OTHER        -> "VVVVVVVVVVVVVVVVVVVVVVVVVVVVVVVVVVVVVVVVVVU="

\* base64.URLEncoding.EncodeToString of a 16-byte slice
URLEncodeToString(b) ==
    CASE b.fill = 0   -> "AAAAAAAAAAAAAAAAAAAAAA=="
      [] b.fill = 255 -> "_____________________w=="
      [] OTHER        -> "VVVVVVVVVVVVVVVVVVVVVQ=="

\* every token / code a request can carry
Tokens == {StdEncodeToString(RandRead(MakeBytes(TokenBytes), f)) : f \in RandFills}
Codes == {URLEncodeToString(RandRead(MakeBytes(InviteBytes), f)) : f \in RandFills}

\* bcrypt: the digest is a function of the cost and the password (salt elided)
hashPassword(password) == <<"$2a$", bcryptCost, password>>
checkPasswordHash(password, hash) == hash = hashPassword(password)

\* the zero value of a session struct
NoSession == [username |-> "", expiry |-> 0]

\* mutant: a session is expired from the instant of its expiry on
isExpiredFromExpiry(s, t) == s.expiry <= t

\* session.isExpired at clock reading t: expiry.Before(time.Now())
isExpired(s, t) == s.expiry < t

VARIABLES
    users,      \* table users: username -> password_hash (UNIQUE username)
    codes,      \* table invitation_codes: code -> used (UNIQUE code)
    sessions,   \* var sessions map[string]session
    now,        \* time.Now(), in hours
    up,         \* the server process is running
    faulty,     \* storage / crypto operations may fail in this run
    boot,       \* how many times the server process has been started again
    pc,         \* per client: where its handler goroutine is
    req,        \* per client: the request being served (its password is in
                \* hashedPassword once read)
    loc,        \* per client: the handler's local variables
    resp,       \* per client: status written to the ResponseWriter (0: none yet)
    jar         \* per client: the session_token cookie it was last handed, and
                \* whether it still holds it (live) or has signed it out

vars == <<users, codes, sessions, now, up, faulty, boot, pc, req, loc, resp, jar>>

NoReq == [op |-> "", malformed |-> FALSE, username |-> "", invitationCode |-> "",
          cookie |-> NoCookie]
NoLoc == [used |-> FALSE, hashedPassword |-> << >>, sessionToken |-> "", expiresAt |-> 0,
          userSession |-> NoSession, timeNow |-> 0]
NoJar == [value |-> "", expires |-> 0, live |-> FALSE, boot |-> 0]

\* the cookie a request of client c can carry: none, one the server never
\* issued, or the one it was last handed (cleared since or not)
Cookies(c) == {NoCookie, Forged} \cup (IF jar[c].value = "" THEN {} ELSE {jar[c].value})

\* the outcomes of a storage or crypto call: it succeeds, or (faulty runs) fails
Outcomes == IF faulty THEN {TRUE, FALSE} ELSE {TRUE}

InitWith(f) ==
    /\ users = << >>
    /\ codes = << >>
    /\ sessions = << >>
    /\ now = 0
    /\ up = TRUE
    /\ faulty = f
    /\ boot = 0
    /\ pc = [c \in Clients |-> "idle"]
    /\ req = [c \in Clients |-> NoReq]
    /\ loc = [c \in Clients |-> NoLoc]
    /\ resp = [c \in Clients |-> 0]
    /\ jar = [c \in Clients |-> NoJar]

Init == InitWith(FALSE)

\* map / table helpers
Put(m, k, v) == [x \in DOMAIN m \cup {k} |-> IF x = k THEN v ELSE m[x]]
Delete(m, k) == [x \in DOMAIN m \ {k} |-> m[x]]

\* the handler of client c writes status s and returns, its locals being l
RespondWith(c, s, l) ==
    /\ pc' = [pc EXCEPT ![c] = "done"]
    /\ resp' = [resp EXCEPT ![c] = s]
    /\ loc' = [loc EXCEPT ![c] = l]

Respond(c, s) == RespondWith(c, s, loc[c])

\* the handler of client c goes on to `label` with locals l
Goto(c, label, l) ==
    /\ pc' = [pc EXCEPT ![c] = label]
    /\ loc' = [loc EXCEPT ![c] = l]
    /\ UNCHANGED resp

\* a request whose body json.Decode rejects
Malformed(c, op) ==
    /\ req' = [req EXCEPT ![c] = [NoReq EXCEPT !.op = op, !.malformed = TRUE]]
    /\ Respond(c, StatusBadRequest)

\* ---------------------------------------------------------------- signup
\* mutant: a code with no row is read as the zero value, used = false
SignupAttemptNoRows(c, u, p, k) ==
    /\ req' = [req EXCEPT ![c] = [NoReq EXCEPT !.op = "signup", !.username = u,
                                               !.invitationCode = k]]
    /\ IF k \in DOMAIN codes /\ codes[k]
       THEN RespondWith(c, StatusUnauthorized, [NoLoc EXCEPT !.used = TRUE])
       ELSE Goto(c, "insert_user", [NoLoc EXCEPT !.hashedPassword = hashPassword(p)])

\* SELECT used FROM invitation_codes WHERE code = ?, then hashPassword
SignupAttempt(c, u, p, k) ==
    /\ req' = [req EXCEPT ![c] = [NoReq EXCEPT !.op = "signup", !.username = u,
                                               !.invitationCode = k]]
    /\ \E ok \in Outcomes, hashOk \in Outcomes :
        IF ~ok THEN Respond(c, StatusInternalServerError)
        ELSE IF k \notin DOMAIN codes THEN Respond(c, StatusUnauthorized)
        ELSE IF codes[k] THEN RespondWith(c, StatusUnauthorized, [NoLoc EXCEPT !.used = TRUE])
        ELSE IF ~hashOk THEN Respond(c, StatusInternalServerError)
        ELSE Goto(c, "insert_user", [NoLoc EXCEPT !.hashedPassword = hashPassword(p)])

\* Decode the body and check the invitation code
SignupCheckCode(c) ==
    /\ up /\ pc[c] = "idle"
    /\ \/ Malformed(c, "signup")
       \/ \E u \in Usernames, p \in Passwords, k \in Codes : SignupAttempt(c, u, p, k)
    /\ UNCHANGED <<users, codes, sessions, now, up, faulty, boot, jar>>

\* mutant: the code is consumed before the insert, and stays so when it fails
SignupInsertUserBurns(c) ==
    /\ up /\ pc[c] = "insert_user"
    /\ codes' = [k \in DOMAIN codes |->
                    IF k = req[c].invitationCode THEN TRUE ELSE codes[k]]
    /\ \E ok \in Outcomes :
        IF ~ok \/ req[c].username \in DOMAIN users
        THEN /\ Respond(c, StatusInternalServerError)
             /\ UNCHANGED users
        ELSE /\ users' = Put(users, req[c].username, loc[c].hashedPassword)
             /\ Goto(c, "mark_used", NoLoc)
    /\ UNCHANGED <<sessions, now, up, faulty, boot, req, jar>>

\* mutant: the insert replaces the row of a username already present
SignupInsertUserReplace(c) ==
    /\ up /\ pc[c] = "insert_user"
    /\ users' = Put(users, req[c].username, loc[c].hashedPassword)
    /\ Goto(c, "mark_used", NoLoc)
    /\ UNCHANGED <<codes, sessions, now, up, faulty, boot, req, jar>>

\* INSERT INTO users (username, password_hash) VALUES (?, ?)
SignupInsertUser(c) ==
    /\ up /\ pc[c] = "insert_user"
    /\ \E ok \in Outcomes :
        IF ~ok \/ req[c].username \in DOMAIN users
        THEN /\ Respond(c, StatusInternalServerError)
             /\ UNCHANGED users
        ELSE /\ users' = Put(users, req[c].username, loc[c].hashedPassword)
             /\ Goto(c, "mark_used", NoLoc)
    /\ UNCHANGED <<codes, sessions, now, up, faulty, boot, req, jar>>

\* mutant: the UPDATE matches no row, and 201 is written all the same
SignupMarkUsedNoRow(c) ==
    /\ up /\ pc[c] = "mark_used"
    /\ Respond(c, StatusCreated)
    /\ UNCHANGED <<users, codes, sessions, now, up, faulty, boot, req, jar>>

\* mutant: a successful signup also signs the new user in
SignupMarkUsedSignsIn(c) ==
    /\ up /\ pc[c] = "mark_used"
    /\ codes' = [k \in DOMAIN codes |->
                    IF k = req[c].invitationCode THEN TRUE ELSE codes[k]]
    /\ LET sessionToken == StdEncodeToString(MakeBytes(TokenBytes))
           expiresAt == now + sessionDuration
       IN  /\ sessions' = Put(sessions, sessionToken,
                              [username |-> req[c].username, expiry |-> expiresAt])
           /\ jar' = [jar EXCEPT ![c] = [value |-> sessionToken, expires |-> expiresAt,
                                         live |-> TRUE, boot |-> boot]]
    /\ Respond(c, StatusCreated)
    /\ UNCHANGED <<users, now, up, faulty, boot, req>>

\* UPDATE invitation_codes SET used = true WHERE code = ?
SignupMarkUsed(c) ==
    /\ up /\ pc[c] = "mark_used"
    /\ \E ok \in Outcomes :
        IF ~ok
        THEN /\ Respond(c, StatusInternalServerError)
             /\ UNCHANGED codes
        ELSE /\ codes' = [k \in DOMAIN codes |->
                            IF k = req[c].invitationCode THEN TRUE ELSE codes[k]]
             /\ Respond(c, StatusCreated)
    /\ UNCHANGED <<users, sessions, now, up, faulty, boot, req, jar>>

\* ---------------------------------------------------------------- signin
\* sessionToken := base64.StdEncoding.EncodeToString(make([]byte, 32));
\* rand.Read([]byte(sessionToken)) fills a copy of the string's bytes with
\* the random bytes f and leaves sessionToken as it was.
NewSessionToken(f) ==
    LET sessionToken == StdEncodeToString(MakeBytes(TokenBytes))
        scratch == RandRead([len |-> Len(sessionToken), fill |-> 0], f)
    IN  sessionToken

\* mutant: a missing users row is handled like any other query error
SigninAttemptNoRows(c, u, p) ==
    /\ req' = [req EXCEPT ![c] = [NoReq EXCEPT !.op = "signin", !.username = u]]
    /\ \E f \in RandFills, randOk \in Outcomes :
        IF u \notin DOMAIN users THEN Respond(c, StatusInternalServerError)
        ELSE IF ~checkPasswordHash(p, users[u]) THEN Respond(c, StatusUnauthorized)
        ELSE IF ~randOk THEN Respond(c, StatusInternalServerError)
        ELSE Goto(c, "write_session", [NoLoc EXCEPT !.sessionToken = NewSessionToken(f),
                                                    !.expiresAt = now + sessionDuration])

\* SELECT password_hash FROM users, checkPasswordHash; then make the token,
\* read the clock and enter the assignment to sessions[sessionToken].
\* (users rows are never changed or deleted, so the lookup's result still
\* holds when the handler reaches the map.)
SigninAttempt(c, u, p) ==
    /\ req' = [req EXCEPT ![c] = [NoReq EXCEPT !.op = "signin", !.username = u]]
    /\ \E f \in RandFills, ok \in Outcomes, randOk \in Outcomes :
        IF ~ok THEN Respond(c, StatusInternalServerError)
        ELSE IF u \notin DOMAIN users THEN Respond(c, StatusUnauthorized)
        ELSE IF ~checkPasswordHash(p, users[u]) THEN Respond(c, StatusUnauthorized)
        ELSE IF ~randOk THEN Respond(c, StatusInternalServerError)
        ELSE Goto(c, "write_session", [NoLoc EXCEPT !.sessionToken = NewSessionToken(f),
                                                    !.expiresAt = now + sessionDuration])

SigninBegin(c) ==
    /\ up /\ pc[c] = "idle"
    /\ \/ Malformed(c, "signin")
       \/ \E u \in Usernames, p \in Passwords : SigninAttempt(c, u, p)
    /\ UNCHANGED <<users, codes, sessions, now, up, faulty, boot, jar>>

\* sessions[sessionToken] = session{...} completes; http.SetCookie
SigninWrite(c) ==
    /\ up /\ pc[c] = "write_session"
    /\ sessions' = Put(sessions, loc[c].sessionToken,
                       [username |-> req[c].username, expiry |-> loc[c].expiresAt])
    /\ jar' = [jar EXCEPT ![c] = [value |-> loc[c].sessionToken, expires |-> loc[c].expiresAt,
                                live |-> TRUE, boot |-> boot]]
    /\ Respond(c, StatusOK)
    /\ UNCHANGED <<users, codes, now, up, faulty, boot, req>>

\* ---------------------------------------------------------------- logout
\* r.Cookie("session_token"), then enter delete(sessions, sessionToken)
LogoutBegin(c) ==
    /\ up /\ pc[c] = "idle"
    /\ \E ck \in Cookies(c) :
        /\ req' = [req EXCEPT ![c] = [NoReq EXCEPT !.op = "logout", !.cookie = ck]]
        /\ IF ck = NoCookie
           THEN Respond(c, StatusUnauthorized)
           ELSE Goto(c, "delete_session", [NoLoc EXCEPT !.sessionToken = ck])
    /\ UNCHANGED <<users, codes, sessions, now, up, faulty, boot, jar>>

\* delete(sessions, sessionToken) completes; the response clears the cookie
\* the request carried
LogoutDelete(c) ==
    /\ up /\ pc[c] = "delete_session"
    /\ sessions' = Delete(sessions, loc[c].sessionToken)
    /\ jar' = [jar EXCEPT ![c].live = @ /\ jar[c].value # req[c].cookie]
    /\ Respond(c, StatusOK)
    /\ UNCHANGED <<users, codes, now, up, faulty, boot, req>>

\* ------------------------------------------------------------- checkAuth
\* r.Cookie("session_token"), then enter the read sessions[sessionToken]
CheckAuthBegin(c) ==
    /\ up /\ pc[c] = "idle"
    /\ \E ck \in Cookies(c) :
        /\ req' = [req EXCEPT ![c] = [NoReq EXCEPT !.op = "checkAuth", !.cookie = ck]]
        /\ IF ck = NoCookie
           THEN Respond(c, StatusUnauthorized)
           ELSE Goto(c, "read_session", [NoLoc EXCEPT !.sessionToken = ck])
    /\ UNCHANGED <<users, codes, sessions, now, up, faulty, boot, jar>>

\* userSession, exists := sessions[sessionToken] completes
CheckAuthRead(c) ==
    /\ up /\ pc[c] = "read_session"
    /\ IF loc[c].sessionToken \notin DOMAIN sessions
       THEN Respond(c, StatusUnauthorized)
       ELSE Goto(c, "check_expiry",
                 [loc[c] EXCEPT !.userSession = sessions[loc[c].sessionToken]])
    /\ UNCHANGED <<users, codes, sessions, now, up, faulty, boot, req, jar>>

\* mutant: a successful check renews the session (sliding expiry)
CheckAuthExpirySlides(c) ==
    /\ up /\ pc[c] = "check_expiry"
    /\ LET l == [loc[c] EXCEPT !.timeNow = now] IN
       IF isExpired(l.userSession, l.timeNow)
       THEN Goto(c, "expire_session", l) /\ UNCHANGED sessions
       ELSE /\ RespondWith(c, StatusOK, l)
            /\ sessions' = Put(sessions, l.sessionToken,
                               [l.userSession EXCEPT !.expiry = now + sessionDuration])
    /\ UNCHANGED <<users, codes, now, up, faulty, boot, req, jar>>

\* userSession.isExpired() reads the clock (timeNow) and compares: if
\* expired, enter delete(sessions, sessionToken)
CheckAuthExpiry(c) ==
    /\ up /\ pc[c] = "check_expiry"
    /\ LET l == [loc[c] EXCEPT !.timeNow = now] IN
       IF isExpired(l.userSession, l.timeNow)
       THEN Goto(c, "expire_session", l)
       ELSE RespondWith(c, StatusOK, l)
    /\ UNCHANGED <<users, codes, sessions, now, up, faulty, boot, req, jar>>

\* mutant: the expired session is reported but left in the map
CheckAuthDeleteKeeps(c) ==
    /\ up /\ pc[c] = "expire_session"
    /\ Respond(c, StatusUnauthorized)
    /\ UNCHANGED <<users, codes, sessions, now, up, faulty, boot, req, jar>>

\* delete(sessions, sessionToken) of the expired session completes
CheckAuthDelete(c) ==
    /\ up /\ pc[c] = "expire_session"
    /\ sessions' = Delete(sessions, loc[c].sessionToken)
    /\ Respond(c, StatusUnauthorized)
    /\ UNCHANGED <<users, codes, now, up, faulty, boot, req, jar>>

\* -------------------------------------------------------- invite generation
\* The process ends: the sessions map and every handler goroutine are gone.
Die ==
    /\ up' = FALSE
    /\ sessions' = << >>
    /\ pc' = [c \in Clients |-> "idle"]
    /\ req' = [c \in Clients |-> NoReq]
    /\ loc' = [c \in Clients |-> NoLoc]
    /\ resp' = [c \in Clients |-> 0]

\* POST /api/generate-invite-code: no credential is read
GenerateInviteCode(c) ==
    /\ up /\ pc[c] = "idle"
    /\ \E ck \in Cookies(c), f \in RandFills, randOk \in Outcomes, ok \in Outcomes :
        LET code == URLEncodeToString(RandRead(MakeBytes(InviteBytes), f)) IN
        /\ req' = [req EXCEPT ![c] = [NoReq EXCEPT !.op = "generateInviteCode", !.cookie = ck]]
        /\ IF ~randOk \/ ~ok \/ code \in DOMAIN codes
           THEN /\ Respond(c, StatusInternalServerError)
                /\ UNCHANGED codes
           ELSE /\ codes' = Put(codes, code, FALSE)
                /\ Respond(c, StatusOK)
    /\ UNCHANGED <<users, sessions, now, up, faulty, boot, jar>>

\* mutant: the CLI's insert replaces the row of a code already present
GenerateInviteCodeCLIReplace ==
    /\ up
    /\ \E f \in RandFills :
        LET code == URLEncodeToString(RandRead(MakeBytes(InviteBytes), f)) IN
        codes' = Put(codes, code, FALSE)
    /\ UNCHANGED <<users, sessions, now, up, faulty, boot, pc, req, loc, resp, jar>>

\* CLI command generate-invite: every error is log.Fatal
GenerateInviteCodeCLI ==
    /\ up
    /\ \E f \in RandFills, randOk \in Outcomes, ok \in Outcomes :
        LET code == URLEncodeToString(RandRead(MakeBytes(InviteBytes), f)) IN
        IF ~randOk \/ ~ok \/ code \in DOMAIN codes
        THEN /\ Die
             /\ UNCHANGED <<users, codes, now, faulty, boot, jar>>
        ELSE /\ codes' = Put(codes, code, FALSE)
             /\ UNCHANGED <<users, sessions, now, up, faulty, boot, pc, req, loc, resp, jar>>

\* ------------------------------------------------- the unguarded sessions map
Reading(c) == pc[c] = "read_session"
Writing(c) == pc[c] \in {"write_session", "delete_session", "expire_session"}
InAccess(c) == Reading(c) \/ Writing(c)
Race == \E c, d \in Clients : c # d /\ Writing(c) /\ InAccess(d)

\* The runtime may detect a map write concurrent with another access and
\* end the process ("fatal error: concurrent map writes"); when it does not,
\* the accesses complete in some order.
FatalRace ==
    /\ up /\ Race
    /\ Die
    /\ UNCHANGED <<users, codes, now, faulty, boot, jar>>

\* ---------------------------------------------------------------- the clock
Tick ==
    /\ now < MaxTicks * TickHours
    /\ now' = now + TickHours
    /\ UNCHANGED <<users, codes, sessions, up, faulty, boot, pc, req, loc, resp, jar>>

\* ------------------------------------------------------- process lifecycle
\* The operator stops the server.
Stop ==
    /\ up
    /\ Die
    /\ UNCHANGED <<users, codes, now, faulty, boot, jar>>

\* main: initDB opens the database file; sessions is a fresh empty map
Start ==
    /\ ~up /\ boot < MaxRestarts
    /\ up' = TRUE
    /\ boot' = boot + 1
    /\ sessions' = << >>
    /\ UNCHANGED <<users, codes, now, faulty, pc, req, loc, resp, jar>>

\* ------------------------------------------------------------- the client
\* The client has read the response; its next request may start.
Return(c) ==
    /\ pc[c] = "done"
    /\ pc' = [pc EXCEPT ![c] = "idle"]
    /\ req' = [req EXCEPT ![c] = NoReq]
    /\ loc' = [loc EXCEPT ![c] = NoLoc]
    /\ resp' = [resp EXCEPT ![c] = 0]
    /\ UNCHANGED <<users, codes, sessions, now, up, faulty, boot, jar>>

\* ------------------------------------------------------- the whole system
AccountHandler(c) ==
    \/ SignupCheckCode(c)
    \/ SignupInsertUser(c)
    \/ SignupMarkUsed(c)
    \/ GenerateInviteCode(c)
    \/ Return(c)

SessionHandler(c) ==
    \/ SigninBegin(c)
    \/ SigninWrite(c)
    \/ LogoutBegin(c)
    \/ LogoutDelete(c)
    \/ CheckAuthBegin(c)
    \/ CheckAuthRead(c)
    \/ CheckAuthExpiry(c)
    \/ CheckAuthDelete(c)
    \/ Return(c)

NextAccounts ==
    \/ \E c \in Clients : AccountHandler(c)
    \/ GenerateInviteCodeCLI

NextSessions ==
    \/ \E c \in Clients : SessionHandler(c)
    \/ FatalRace
    \/ Tick

Next == NextAccounts \/ NextSessions

\* the whole server from an empty database, reliable storage
Spec == Init /\ [][Next]_vars

\* The account operations (signup, invite generation) touch only the two
\* tables; the session operations touch only the sessions map and read the
\* users table, whose rows never change.  Each half is explored on its own:
\* the accounts from the empty database, the sessions with one or two
\* identities registered (states Spec reaches: see Registered).
SpecAccounts == Init /\ [][NextAccounts]_vars

Registered ==
    \E registered \in {{"alice"}, {"alice", "bob"}} :
        /\ users = [u \in registered |-> hashPassword(IF u = "alice" THEN "pw1" ELSE "pw2")]
        /\ codes \in [Codes -> BOOLEAN]
        /\ Cardinality({k \in Codes : codes[k]}) = Cardinality(registered)

InitSessions ==
    /\ Registered
    /\ sessions = << >>
    /\ now = 0
    /\ up = TRUE
    /\ faulty = FALSE
    /\ boot = 0
    /\ pc = [c \in Clients |-> "idle"]
    /\ req = [c \in Clients |-> NoReq]
    /\ loc = [c \in Clients |-> NoLoc]
    /\ resp = [c \in Clients |-> 0]
    /\ jar = [c \in Clients |-> NoJar]

SpecSessions == InitSessions /\ [][NextSessions]_vars

\* signups served while users sign in and sessions are stored
NextSignupSessions ==
    \/ \E c \in Clients :
        \/ SignupCheckCode(c)
        \/ SignupInsertUser(c)
        \/ SignupMarkUsed(c)
        \/ SigninBegin(c)
        \/ SigninWrite(c)
        \/ Return(c)
    \/ FatalRace

SpecSignupSessions == InitSessions /\ [][NextSignupSessions]_vars

\* storage and crypto calls may fail
SpecFaulty == InitWith(TRUE) /\ [][NextAccounts]_vars

\* the operator may stop and start the server
NextRestart == NextSessions \/ Stop \/ Start
SpecRestart == InitSessions /\ [][NextRestart]_vars

\* ================================================================ claims
Done(c, op) == pc[c] = "done" /\ req[c].op = op /\ ~req[c].malformed

\* C1: of the signups that present the same invitation code, at most one
\* returns 201 Created (the others fail), under every interleaving.
C1_OneSignupPerCode ==
    \A c, d \in Clients :
        (c # d /\ Done(c, "signup") /\ Done(d, "signup")
              /\ req[c].invitationCode = req[d].invitationCode
              /\ resp[c] = StatusCreated)
        => resp[d] # StatusCreated

\* C2: two successful signins never return the same session token.
C2_TokensUnique ==
    \A c, d \in Clients :
        (c # d /\ Done(c, "signin") /\ Done(d, "signin")
              /\ resp[c] = StatusOK /\ resp[d] = StatusOK)
        => jar[c].value # jar[d].value

\* C3: a client that signed in, has not signed out since, and presents its
\* token before the token's expiry is answered 200 by checkAuth, whatever the
\* other clients did in between.
C3_ValidUntilExpiry ==
    \A c \in Clients :
        (Done(c, "checkAuth") /\ jar[c].live /\ req[c].cookie = jar[c].value
              /\ now < jar[c].expires)
        => resp[c] = StatusOK

\* C4: an entry of the session store is never replaced: while a token stays
\* in the store it stays bound to the identity (and expiry) it was stored with.
C4_TokenBoundOnce ==
    [][\A t \in DOMAIN sessions \cap DOMAIN sessions' : sessions'[t] = sessions[t]]_vars

\* C5: a signup that returns 201 leaves its invitation code marked used, a
\* used code stays used, and every signup that presents a used code is
\* answered 401 Unauthorized.
C5_UsedCodeRejected ==
    [][/\ \A c \in Clients :
            (pc[c] = "mark_used" /\ pc'[c] = "done" /\ resp'[c] = StatusCreated)
            => /\ req[c].invitationCode \in DOMAIN codes'
               /\ codes'[req[c].invitationCode]
       /\ \A k \in DOMAIN codes : codes[k] => (k \in DOMAIN codes' /\ codes'[k])
       /\ \A c \in Clients :
            (pc[c] = "idle" /\ pc'[c] # "idle" /\ req'[c].op = "signup" /\ ~req'[c].malformed
                /\ req'[c].invitationCode \in DOMAIN codes
                /\ codes[req'[c].invitationCode])
            => (pc'[c] = "done" /\ resp'[c] = StatusUnauthorized)]_vars

\* C5 witness: a signup that read its code as used (an identity exists, so a
\* signup returned 201 before) has been answered 401.
C5_Witness ==
    \E c \in Clients :
        /\ Done(c, "signup") /\ resp[c] = StatusUnauthorized
        /\ loc[c].used
        /\ codes[req[c].invitationCode]
        /\ users # << >>

\* C6: a client that has signed out is answered 401 by every later checkAuth
\* with the token it signed out.
C6_RevokedStaysRevoked ==
    \A c \in Clients :
        (Done(c, "checkAuth") /\ jar[c].value # "" /\ ~jar[c].live
              /\ req[c].cookie = jar[c].value)
        => resp[c] = StatusUnauthorized

\* C7: a logout whose token is not in the session store is answered 401
\* Unauthorized and leaves the store unchanged.
C7_LogoutUnknownToken ==
    [][\A c \in Clients :
          (pc[c] = "delete_session" /\ pc'[c] = "done"
              /\ loc[c].sessionToken \notin DOMAIN sessions)
          => (resp'[c] = StatusUnauthorized /\ sessions' = sessions)]_vars

\* C8: checkAuth that reads a session whose stored expiry is in the past ends
\* only in 401 with the token's entry removed from the store; and a checkAuth
\* that finds its token absent from the store is answered 401 and changes
\* nothing.
ExpiredSeen(c) ==
    /\ pc[c] \in {"check_expiry", "expire_session"}
    /\ loc[c].userSession.expiry < now

C8_ExpiredRemoved ==
    [][\A c \in Clients :
          LET t == loc[c].sessionToken IN
          /\ (pc[c] = "read_session" /\ pc'[c] \notin {"read_session", "idle"}
                  /\ t \in DOMAIN sessions /\ sessions[t].expiry < now)
             => ExpiredSeen(c)'
          /\ (ExpiredSeen(c) /\ pc'[c] # "idle")
             => \/ ExpiredSeen(c)'
                \/ /\ pc'[c] = "done" /\ resp'[c] = StatusUnauthorized
                   /\ t \notin DOMAIN sessions'
          /\ (pc[c] = "read_session" /\ pc'[c] \notin {"read_session", "idle"}
                  /\ t \notin DOMAIN sessions)
             => /\ pc'[c] = "done" /\ resp'[c] = StatusUnauthorized
                /\ sessions' = sessions]_vars

\* C8 witness: a checkAuth that read an expired session was answered 401 and
\* the token is not in the store.
C8_Witness ==
    \E c \in Clients :
        /\ Done(c, "checkAuth") /\ resp[c] = StatusUnauthorized
        /\ loc[c].userSession # NoSession
        /\ loc[c].userSession.expiry < now
        /\ req[c].cookie \notin DOMAIN sessions

\* C9: no two handlers are inside an access to the sessions map at the same
\* time with one of them writing.
C9_MutualExclusion ==
    \A c, d \in Clients : (c # d /\ Writing(c)) => ~InAccess(d)

\* C10: a generate-invite request that carries no valid, unexpired session
\* adds no invitation code and is not answered 200.
Authenticated(ck) == ck \in DOMAIN sessions /\ ~isExpired(sessions[ck], now)

C10_InviteNeedsSession ==
    [][\A c \in Clients :
          (pc[c] = "idle" /\ pc'[c] = "done" /\ req'[c].op = "generateInviteCode"
              /\ ~Authenticated(req'[c].cookie))
          => (codes' = codes /\ resp'[c] # StatusOK)]_vars

\* C11: with reliable storage, a signin naming an unknown username and a
\* signin naming a known username with a wrong password end the same way:
\* 401, no handler local set (no token made), the sessions map and the
\* client's cookie unchanged.
C11_SigninFailuresAlike ==
    [][\A c \in Clients, u \in Usernames, p \in Passwords :
        ( /\ up /\ pc[c] = "idle"
          /\ SigninAttempt(c, u, p)
          /\ \/ u \notin DOMAIN users
             \/ u \in DOMAIN users /\ ~checkPasswordHash(p, users[u]) )
        => /\ pc'[c] = "done"
           /\ resp'[c] = StatusUnauthorized
           /\ loc'[c] = NoLoc
           /\ sessions' = sessions
           /\ jar' = jar]_vars

\* one client was refused for an unknown username, the other for a known
\* username, while a session is stored
C11_Witness ==
    \E c, d \in Clients :
        /\ c # d
        /\ Done(c, "signin") /\ resp[c] = StatusUnauthorized
        /\ req[c].username \notin DOMAIN users
        /\ Done(d, "signin") /\ resp[d] = StatusUnauthorized
        /\ req[d].username \in DOMAIN users
        /\ sessions # << >>

\* C12: a username has one users row, whose password hash never changes:
\* with reliable storage the INSERT of a signup (whatever code it passed
\* with) creates the row when the username is free and is answered 500,
\* the table unchanged, when the username is taken.
C12_OneIdentityPerUsername ==
    [][/\ \A u \in DOMAIN users : u \in DOMAIN users' /\ users'[u] = users[u]
       /\ \A c \in Clients :
            (pc[c] = "insert_user" /\ pc'[c] \notin {"insert_user", "idle"})
            => IF req[c].username \in DOMAIN users
               THEN pc'[c] = "done" /\ resp'[c] = StatusInternalServerError
                    /\ users' = users
               ELSE pc'[c] = "mark_used"
                    /\ DOMAIN users' = DOMAIN users \cup {req[c].username}
                    /\ users'[req[c].username] = loc[c].hashedPassword]_vars

\* a signup that passed with a code still unused was answered 500 at the
\* INSERT: its username is registered, under another password
C12_Witness ==
    \E c \in Clients :
        /\ Done(c, "signup") /\ resp[c] = StatusInternalServerError
        /\ req[c].username \in DOMAIN users
        /\ loc[c].hashedPassword # << >>
        /\ loc[c].hashedPassword # users[req[c].username]
        /\ ~codes[req[c].invitationCode]
        /\ \E k \in DOMAIN codes : codes[k]

\* C13: no step of a signup handler, whatever it answers (201, 400, 401 or
\* 500), changes the sessions map, hands the client a cookie or makes a
\* session token.
C13_SignupIssuesNoSession ==
    [][\A c \in Clients :
        ( /\ pc'[c] # pc[c] /\ pc'[c] # "idle"
          /\ \/ pc[c] = "idle" /\ req'[c].op = "signup"
             \/ pc[c] \in {"insert_user", "mark_used"} )
        => /\ sessions' = sessions
           /\ jar' = jar
           /\ loc'[c].sessionToken = ""
           /\ pc'[c] = "done"
              => resp'[c] \in {StatusCreated, StatusBadRequest, StatusUnauthorized,
                               StatusInternalServerError}]_vars

\* a client holding a live session cookie has signed a new user up (201)
\* while a session is stored
C13_Witness ==
    \E c \in Clients :
        /\ Done(c, "signup") /\ resp[c] = StatusCreated
        /\ sessions # << >>
        /\ jar[c].live /\ jar[c].value \in DOMAIN sessions

\* C14: with reliable storage, a signup whose invitation code has no row or
\* has used = true is answered 401 at the code check and changes neither
\* table.
C14_BadCodeRejected ==
    [][\A c \in Clients :
        ( /\ pc[c] = "idle" /\ req'[c].op = "signup" /\ ~req'[c].malformed
          /\ \/ req'[c].invitationCode \notin DOMAIN codes
             \/ req'[c].invitationCode \in DOMAIN codes /\ codes[req'[c].invitationCode] )
        => /\ pc'[c] = "done"
           /\ resp'[c] = StatusUnauthorized
           /\ users' = users
           /\ codes' = codes]_vars

\* one signup was refused for a code that has no row, another for a code
\* that is used
C14_Witness ==
    \E c, d \in Clients :
        /\ c # d
        /\ Done(c, "signup") /\ resp[c] = StatusUnauthorized
        /\ req[c].invitationCode \notin DOMAIN codes
        /\ Done(d, "signup") /\ resp[d] = StatusUnauthorized
        /\ loc[d].used /\ codes[req[d].invitationCode]

\* C15 (as stated): when the INSERT of a signup fails, the signup's
\* invitation code ends up marked used.
C15_FailedInsertBurnsCode ==
    [][\A c \in Clients :
        (pc[c] = "insert_user" /\ pc'[c] = "done")
        => codes'[req[c].invitationCode]]_vars

\* C15 (amended): a signup whose INSERT fails (username taken, or a storage
\* error) is answered 500 and leaves both tables as they were; a used flag
\* is set only by the UPDATE of a signup whose INSERT succeeded, so the
\* failed signup does not burn its code.
C15_FailedInsertKeepsCode ==
    [][/\ \A c \in Clients :
            (pc[c] = "insert_user" /\ pc'[c] = "done")
            => /\ resp'[c] = StatusInternalServerError
               /\ codes' = codes
               /\ users' = users
       /\ \A k \in DOMAIN codes :
            (~codes[k] /\ codes'[k])
            => \E c \in Clients :
                /\ pc[c] = "mark_used" /\ pc'[c] = "done"
                /\ resp'[c] = StatusCreated
                /\ req[c].invitationCode = k
                /\ req[c].username \in DOMAIN users]_vars

\* a signup was answered 500 at the INSERT and its code is still unused
C15_Witness ==
    \E c \in Clients :
        /\ Done(c, "signup") /\ resp[c] = StatusInternalServerError
        /\ loc[c].hashedPassword # << >>
        /\ req[c].invitationCode \in DOMAIN codes
        /\ ~codes[req[c].invitationCode]

\* C16: checkAuth's expiry check and delete act as one atomic step on the
\* stored entry: a checkAuth that answers 200 does so for an entry that is
\* not expired at that moment, and the delete of checkAuth removes only an
\* entry whose expiry is not in the future.
C16_CheckAndDeleteAtomic ==
    [][\A c \in Clients :
        LET t == loc[c].sessionToken IN
        /\ (pc[c] = "check_expiry" /\ pc'[c] = "done" /\ resp'[c] = StatusOK
                /\ t \in DOMAIN sessions)
           => ~(sessions[t].expiry < now)
        /\ (pc[c] = "expire_session" /\ pc'[c] = "done" /\ t \in DOMAIN sessions)
           => ~(sessions[t].expiry > now)]_vars

\* C17: the used flag is monotone.  A row of invitation_codes is never
\* removed and a used code stays used; a new row is created unused, by
\* generate-invite-code answering 200 or by the CLI; and a flag goes from
\* unused to used only in the step in which a signup presenting that code
\* is answered 201.
C17_UsedMonotone ==
    [][/\ \A k \in DOMAIN codes : k \in DOMAIN codes' /\ (codes[k] => codes'[k])
       /\ \A k \in DOMAIN codes' \ DOMAIN codes :
            /\ ~codes'[k]
            /\ \/ \E c \in Clients : /\ pc[c] = "idle" /\ pc'[c] = "done"
                                     /\ req'[c].op = "generateInviteCode"
                                     /\ resp'[c] = StatusOK
               \/ pc' = pc /\ up'
       /\ \A k \in DOMAIN codes :
            (~codes[k] /\ codes'[k])
            => \E c \in Clients : /\ pc[c] = "mark_used" /\ pc'[c] = "done"
                                  /\ req[c].op = "signup"
                                  /\ req[c].invitationCode = k
                                  /\ resp'[c] = StatusCreated]_vars

\* one client was handed a new code, which is unused, and the other was
\* answered 201 for a signup whose code is used
C17_Witness ==
    \E c, d \in Clients :
        /\ c # d
        /\ Done(c, "generateInviteCode") /\ resp[c] = StatusOK
        /\ Done(d, "signup") /\ resp[d] = StatusCreated
        /\ codes[req[d].invitationCode]
        /\ \E k \in DOMAIN codes : ~codes[k]

\* C18: codes gate account creation one-for-one: whenever no signup is in
\* flight there are at most as many identities as used codes.
C18_IdentitiesWithinUsedCodes ==
    (\A c \in Clients : req[c].op # "signup" \/ pc[c] = "done")
    => Cardinality(DOMAIN users) <= Cardinality({k \in DOMAIN codes : codes[k]})

\* C19 (as stated): checkAuth answers 200 for the entry it read exactly
\* when the clock is strictly before the entry's expiry.
C19_ValidStrictlyBeforeExpiry ==
    [][\A c \in Clients :
        (pc[c] = "check_expiry" /\ pc'[c] \notin {"check_expiry", "idle"})
        => ( (pc'[c] = "done" /\ resp'[c] = StatusOK)
             <=> now < loc[c].userSession.expiry )]_vars

\* C19 (amended): checkAuth answers 200 for the entry it read exactly when
\* the clock is not after the entry's expiry, the instant of expiry
\* included; otherwise it goes on to delete the entry and answer 401.
C19_ValidUntilExpiryInclusive ==
    [][\A c \in Clients :
        (pc[c] = "check_expiry" /\ pc'[c] \notin {"check_expiry", "idle"})
        => /\ loc'[c].timeNow = now
           /\ IF now <= loc[c].userSession.expiry
              THEN pc'[c] = "done" /\ resp'[c] = StatusOK /\ sessions' = sessions
              ELSE pc'[c] = "expire_session"]_vars

\* checkAuth answered 200 having read the clock at the very instant of
\* the session's expiry
C19_Witness ==
    \E c \in Clients :
        /\ Done(c, "checkAuth") /\ resp[c] = StatusOK
        /\ loc[c].timeNow = loc[c].userSession.expiry

\* C20: a restart invalidates all sessions and nothing else: the start of
\* the process leaves the sessions map empty and both tables as they were,
\* and from then on a checkAuth presenting a cookie that was issued before
\* the restart is answered 401.
C20_RestartInvalidatesSessions ==
    [][/\ (~up /\ up') => sessions' = << >>
       /\ (up # up') => users' = users /\ codes' = codes
       /\ \A c \in Clients :
            ( /\ req[c].op = "checkAuth" /\ pc[c] # "done" /\ pc'[c] = "done"
              /\ req[c].cookie = jar[c].value /\ jar[c].boot < boot )
            => resp'[c] = StatusUnauthorized]_vars

\* C21: a session's expiry is fixed when signin creates it.  signin reads
\* the clock once and adds sessionDuration; the entry it stores and the
\* cookie it hands out both carry that expiry; no step of checkAuth or
\* logout changes a stored entry (they can only remove one), a checkAuth
\* answering 200 leaves the whole map unchanged, and an entry's value is
\* written only by a signin storing a session.
C21_ExpiryFixedAtCreation ==
    [][\A c \in Clients :
        /\ (pc[c] = "idle" /\ pc'[c] = "write_session")
           => loc'[c].expiresAt = now + sessionDuration
        /\ (pc[c] = "write_session" /\ pc'[c] = "done")
           => /\ sessions'[loc[c].sessionToken] =
                    [username |-> req[c].username, expiry |-> loc[c].expiresAt]
              /\ jar'[c].value = loc[c].sessionToken
              /\ jar'[c].expires = loc[c].expiresAt
              /\ jar'[c].expires = sessions'[jar'[c].value].expiry
        /\ (req[c].op = "checkAuth" /\ pc[c] # "done" /\ pc'[c] = "done"
                /\ resp'[c] = StatusOK)
           => sessions' = sessions
        /\ (\A d \in Clients : pc[d] # "write_session" \/ pc'[d] = pc[d])
           => \A t \in DOMAIN sessions' :
                t \in DOMAIN sessions /\ sessions'[t] = sessions[t]]_vars

\* checkAuth answered 200 at a clock reading later than the signin's, and
\* the stored expiry is still the one the cookie carries
C21_Witness ==
    \E c \in Clients :
        /\ Done(c, "checkAuth") /\ resp[c] = StatusOK
        /\ req[c].cookie = jar[c].value
        /\ jar[c].value \in DOMAIN sessions
        /\ sessions[jar[c].value].expiry = jar[c].expires
        /\ loc[c].timeNow + sessionDuration > jar[c].expires

====
